---------------------------- MODULE Spec2Model ----------------------------
(***************************************************************************)
(* Excel Differ: the comparison engine (js/diffEngine.js), the unified     *)
(* table viewer (diffViewer.js, class DiffViewer), the value equality of   *)
(* the parser object (js/excelParser.js) and the application controller    *)
(* (main.js, class ExcelDiffer) that keeps one engine instance.            *)
(*                                                                         *)
(* Text is a sequence of one-character strings, so that String(), trim()   *)
(* and template literals are computed, not assumed.  A cell value is a     *)
(* record [t, s]: its JavaScript type and its text.                        *)
(***************************************************************************)
EXTENDS Integers, Sequences, FiniteSets, TLC

VARIABLES
  oldData,          \* sheet of File A handed to compareSheets (array of rows)
  newData,          \* sheet of File B handed to compareSheets
  sheetDiff,        \* what compareSheets returned, or NoDiff
  unifiedColumns,   \* DiffViewer.getUnifiedColumns of the rendered diff
  allRows,          \* DiffViewer.getAllRows of the rendered diff
  unifiedBody,      \* the tbody built by DiffViewer.buildUnifiedBody
  changedCells,     \* DiffViewer.changedCells
  currentChangeIndex, \* DiffViewer.currentChangeIndex
  lastNav,          \* the last navigation made and the index it started from
  navigationUI,     \* the change counter's text and the two buttons' disabled
  colIndex,         \* argument of ExcelParser.getColumnName
  columnName,       \* what getColumnName returned, or NoName
  handlerFiles,     \* FileHandler.fileA and FileHandler.fileB
  appFiles,         \* ExcelDiffer.fileA and ExcelDiffer.fileB
  startCompareDisabled, \* the Start Comparing button's disabled
  loadingOverlay,   \* the loading overlay's style.display
  uploadSectionShown, \* the upload section is displayed
  diffSectionShown, \* the diff section is displayed
  appData,          \* ExcelDiffer.dataA, dataB and diffResults: set or null
  comparePc,        \* where ExcelDiffer.compareFiles stands
  valueA,           \* first argument of ExcelParser.areValuesEqual
  valueB,           \* second argument of ExcelParser.areValuesEqual
  equalResult,      \* what areValuesEqual returned, or "none"
  results,          \* DiffEngine.results of the instance ExcelDiffer keeps
  returned,         \* what the last DiffEngine.compare call returned
  lastCall,         \* the arguments of the last compare call
  calls             \* number of compare calls made so far

vars == <<oldData, newData, sheetDiff, unifiedColumns, allRows, unifiedBody,
          changedCells, currentChangeIndex, lastNav, navigationUI,
          colIndex, columnName, handlerFiles, appFiles, startCompareDisabled,
          loadingOverlay, uploadSectionShown, diffSectionShown, appData, comparePc,
          valueA, valueB, equalResult, results, returned, lastCall, calls>>

-----------------------------------------------------------------------------
(* Bounds of the model.                                                    *)

MaxCols == 3
MaxRows == 2
MaxCalls == 2
MaxColumnIndex == 730   \* column indices 0..MaxColumnIndex, past ZZ (701)

-----------------------------------------------------------------------------
(* JavaScript values and text.                                             *)

Null == [t |-> "null", s |-> <<>>]
Undefined == [t |-> "undefined", s |-> <<>>]
Str(cs) == [t |-> "string", s |-> cs]
Num(cs) == [t |-> "number", s |-> cs]
EmptyString == Str(<<>>)

\* Boolean(v): null, undefined, '' and 0 are falsy.
Truthy(v) ==
  CASE v.t = "null" -> FALSE
    [] v.t = "undefined" -> FALSE
    [] v.t = "string" -> v.s # <<>>
    [] v.t = "number" -> v.s # <<"0">>

\* String(v)
StringOf(v) ==
  CASE v.t = "null" -> <<"n", "u", "l", "l">>
    [] v.t = "undefined" -> <<"u", "n", "d", "e", "f", "i", "n", "e", "d">>
    [] OTHER -> v.s

RECURSIVE TrimStart(_)
TrimStart(cs) ==
  IF cs # <<>> /\ Head(cs) = " " THEN TrimStart(Tail(cs)) ELSE cs

RECURSIVE TrimEnd(_)
TrimEnd(cs) ==
  IF cs # <<>> /\ cs[Len(cs)] = " " THEN TrimEnd(SubSeq(cs, 1, Len(cs) - 1)) ELSE cs

\* String.prototype.trim
Trim(cs) == TrimEnd(TrimStart(cs))

\* String(val || '').trim()
TrimmedText(v) == Trim(StringOf(IF Truthy(v) THEN v ELSE EmptyString))

DigitChars == <<"0", "1", "2", "3", "4", "5", "6", "7", "8", "9">>

\* `${index}` of a non-negative integer
RECURSIVE DecimalText(_)
DecimalText(n) ==
  IF n < 10 THEN <<DigitChars[n + 1]>>
  ELSE DecimalText(n \div 10) \o <<DigitChars[(n % 10) + 1]>>

StartsWith(cs, prefix) ==
  Len(cs) >= Len(prefix) /\ SubSeq(cs, 1, Len(prefix)) = prefix

-----------------------------------------------------------------------------
(* A JavaScript Map: entries in insertion order; set() on a present key    *)
(* replaces the value and keeps the entry's place.                         *)

MapHas(m, k) == \E i \in 1..Len(m) : m[i].key = k

MapGet(m, k) == m[CHOOSE i \in 1..Len(m) : m[i].key = k].value

MapSet(m, k, v) ==
  IF MapHas(m, k)
  THEN [i \in 1..Len(m) |-> IF m[i].key = k THEN [key |-> k, value |-> v] ELSE m[i]]
  ELSE Append(m, [key |-> k, value |-> v])

MapDelete(m, k) == SelectSeq(m, LAMBDA e : e.key # k)

-----------------------------------------------------------------------------
(* Column letters and rows.  A row object has the keys A, B, C, ... in     *)
(* that order (ExcelParser.parseSheet); it is modelled as the sequence of  *)
(* its values.                                                             *)

Letters == <<"A", "B", "C", "D", "E", "F", "G", "H", "I", "J", "K", "L", "M",
             "N", "O", "P", "Q", "R", "S", "T", "U", "V", "W", "X", "Y", "Z">>

RECURSIVE ColumnNameLoop(_, _)
ColumnNameLoop(index, name) ==
  IF index > 0
  THEN LET mod == (index - 1) % 26
       IN ColumnNameLoop((index - mod) \div 26, <<Letters[mod + 1]>> \o name)
  ELSE name

\* the index written in base 26 with A as the digit 0: 26 gives BA
RECURSIVE getColumnNameBase26(_)
getColumnNameBase26(index) ==
  IF index < 26 THEN <<Letters[index + 1]>>
  ELSE getColumnNameBase26(index \div 26) \o <<Letters[(index % 26) + 1]>>

\* ExcelParser.getColumnName(index), index zero-based
getColumnName(index) == ColumnNameLoop(index + 1, <<>>)

\* Object.keys(row)
RowKeys(row) == [i \in 1..Len(row) |-> getColumnName(i - 1)]

\* row[col]: undefined when the row has no such key
Cell(row, col) ==
  IF \E i \in 1..Len(row) : getColumnName(i - 1) = col
  THEN row[CHOOSE i \in 1..Len(row) : getColumnName(i - 1) = col]
  ELSE Undefined

ColA == <<"A">>

\* data.slice(1)
Slice1(data) == IF Len(data) <= 1 THEN <<>> ELSE Tail(data)

\* A local constant of the code: v is evaluated once and F applied to it
With(v, F(_)) == CHOOSE r \in {F(x) : x \in {v}} : TRUE

\* The concatenation of F(1), ..., F(n): a forEach that pushes to an array
ConcatOver(n, F(_)) ==
  LET f[i \in 0..n] == IF i = 0 THEN <<>> ELSE f[i - 1] \o F(i)
  IN f[n]

\* A forEach over 1..n that updates an accumulator
FoldOver(n, init, F(_, _)) ==
  LET f[i \in 0..n] ==
        IF i = 0 THEN init ELSE With(f[i - 1], LAMBDA acc : F(acc, i))
  IN f[n]

-----------------------------------------------------------------------------
(* DiffEngine (js/diffEngine.js).                                          *)

BlankColumn == <<"(", "B", "l", "a", "n", "k", " ", "C", "o", "l", "u", "m", "n", ")">>
OldDash == <<"o", "l", "d", "-">>
NewDash == <<"n", "e", "w", "-">>

\* The Set of trimmed, non-empty header contents of a header row
HeaderSet(headers) ==
  {c \in {TrimmedText(headers[i]) : i \in 1..Len(headers)} : c # <<>>}

detectColumnChanges(od, nd) ==
  IF od = <<>> \/ nd = <<>> THEN <<>>
  ELSE
    LET oldHeaders == od[1]
        newHeaders == nd[1]
        oldHeaderSet == HeaderSet(oldHeaders)
        newHeaderSet == HeaderSet(newHeaders)
        oldCols == RowKeys(oldHeaders)
        newCols == RowKeys(newHeaders)
        Includes(cols, col) == \E j \in 1..Len(cols) : cols[j] = col
        Added(i) ==
          LET col == newCols[i]
              newContent == TrimmedText(Cell(newHeaders, col))
          IN IF newContent # <<>>
             THEN IF newContent \notin oldHeaderSet
                  THEN <<[column |-> col, type |-> "added", header |-> newContent]>>
                  ELSE <<>>
             ELSE IF ~Includes(oldCols, col)
                  THEN <<[column |-> col, type |-> "added", header |-> BlankColumn]>>
                  ELSE <<>>
        Deleted(i) ==
          LET col == oldCols[i]
              oldContent == TrimmedText(Cell(oldHeaders, col))
          IN IF oldContent # <<>>
             THEN IF oldContent \notin newHeaderSet
                  THEN <<[column |-> col, type |-> "deleted", header |-> oldContent]>>
                  ELSE <<>>
             ELSE IF ~Includes(newCols, col)
                  THEN <<[column |-> col, type |-> "deleted", header |-> BlankColumn]>>
                  ELSE <<>>
    IN ConcatOver(Len(newCols), Added) \o ConcatOver(Len(oldCols), Deleted)

\* The row key read from column B instead of column A
RowKeyFromColumnB(row, prefix, index) ==
  LET k == TrimmedText(Cell(row, <<"B">>))
  IN IF k # <<>> THEN k ELSE prefix \o DecimalText(index)

\* String(row.A || '').trim() || `old-${index}` (or `new-${index}`)
RowKey(row, prefix, index) ==
  LET k == TrimmedText(Cell(row, ColA))
  IN IF k # <<>> THEN k ELSE prefix \o DecimalText(index)

\* rows.forEach((row, index) => map.set(key, { row, index: index + 2 }))
BuildRowMap(rows, prefix) ==
  LET Step(m, i) ==
        MapSet(m, RowKey(rows[i], prefix, i - 1), [row |-> rows[i], index |-> (i - 1) + 2])
  IN FoldOver(Len(rows), <<>>, Step)

RowChangesOf(oldRowMap, newRowMap) ==
  LET Added(i) ==
        LET e == newRowMap[i]
        IN IF ~MapHas(oldRowMap, e.key)
           THEN <<[rowKey |-> e.key, type |-> "added",
                   newRowIndex |-> e.value.index, row |-> e.value.row]>>
           ELSE <<>>
      Deleted(i) ==
        LET e == oldRowMap[i]
        IN IF ~MapHas(newRowMap, e.key)
           THEN <<[rowKey |-> e.key, type |-> "deleted",
                   oldRowIndex |-> e.value.index, row |-> e.value.row]>>
           ELSE <<>>
  IN ConcatOver(Len(newRowMap), Added) \o ConcatOver(Len(oldRowMap), Deleted)

detectRowChanges(od, nd) ==
  With(BuildRowMap(Slice1(od), OldDash), LAMBDA oldRowMap :
    With(BuildRowMap(Slice1(nd), NewDash), LAMBDA newRowMap :
      RowChangesOf(oldRowMap, newRowMap)))

\* header content -> column letter, the first column carrying the content kept
HeaderToColFirstKept(headers) ==
  LET cols == RowKeys(headers)
      Step(m, i) ==
        LET content == TrimmedText(Cell(headers, cols[i]))
        IN IF content # <<>> /\ ~MapHas(m, content) THEN MapSet(m, content, cols[i]) ELSE m
  IN FoldOver(Len(cols), <<>>, Step)

\* header content -> column letter, the last column carrying the content winning
HeaderToCol(headers) ==
  LET cols == RowKeys(headers)
      Step(m, i) ==
        LET content == TrimmedText(Cell(headers, cols[i]))
        IN IF content # <<>> THEN MapSet(m, content, cols[i]) ELSE m
  IN FoldOver(Len(cols), <<>>, Step)

\* oldVal !== newVal
StrictNotEqual(oldVal, newVal) == oldVal # newVal

\* The forEach over oldRowMap at the end of compareCells
CellDifferencesOf(headerToOldCol, headerToNewCol, oldRowMap, newRowMap) ==
  LET ForRow(r) ==
        LET key == oldRowMap[r].key
            oldRowData == oldRowMap[r].value
        IN IF MapHas(newRowMap, key)
           THEN LET newRowData == MapGet(newRowMap, key)
                    ForHeader(h) ==
                      LET headerContent == headerToOldCol[h].key
                          oldCol == headerToOldCol[h].value
                      IN IF MapHas(headerToNewCol, headerContent)
                         THEN LET newCol == MapGet(headerToNewCol, headerContent)
                                  oldVal == Cell(oldRowData.row, oldCol)
                                  newVal == Cell(newRowData.row, newCol)
                              IN IF StrictNotEqual(oldVal, newVal)
                                 THEN <<[row |-> oldRowData.index,
                                         header |-> headerContent,
                                         oldCol |-> oldCol, newCol |-> newCol,
                                         oldValue |-> oldVal, newValue |-> newVal]>>
                                 ELSE <<>>
                         ELSE <<>>
                IN ConcatOver(Len(headerToOldCol), ForHeader)
           ELSE <<>>
  IN ConcatOver(Len(oldRowMap), ForRow)

compareCells(od, nd) ==
  LET oldHeaders == IF od = <<>> THEN <<>> ELSE od[1]
      newHeaders == IF nd = <<>> THEN <<>> ELSE nd[1]
  IN With(HeaderToCol(oldHeaders), LAMBDA headerToOldCol :
       With(HeaderToCol(newHeaders), LAMBDA headerToNewCol :
         With(BuildRowMap(Slice1(od), OldDash), LAMBDA oldRowMap :
           With(BuildRowMap(Slice1(nd), NewDash), LAMBDA newRowMap :
             CellDifferencesOf(headerToOldCol, headerToNewCol,
                               oldRowMap, newRowMap)))))

\* compareSheets without its check for empty input
compareSheetsUnguarded(od, nd) ==
  [differences |-> compareCells(od, nd),
   rowChanges |-> detectRowChanges(od, nd),
   columnChanges |-> detectColumnChanges(od, nd),
   oldData |-> od, newData |-> nd]

compareSheets(od, nd) ==
  IF Len(od) = 0 \/ Len(nd) = 0
  THEN [differences |-> <<>>, rowChanges |-> <<>>, columnChanges |-> <<>>,
        oldData |-> od, newData |-> nd]
  ELSE [differences |-> compareCells(od, nd),
        rowChanges |-> detectRowChanges(od, nd),
        columnChanges |-> detectColumnChanges(od, nd),
        oldData |-> od, newData |-> nd]

-----------------------------------------------------------------------------
(* DiffViewer, the unified table (diffViewer.js).                          *)

NoCol == <<>>       \* oldCol / newCol: null
NoRow == <<>>       \* oldRow / newRow: null
NoIndex == 0        \* oldIndex / newIndex: null

EmptyPrefix == <<"_", "_", "e", "m", "p", "t", "y", "_">>
EmptyOld == EmptyPrefix \o <<"o", "l", "d", "_">>
EmptyNew == EmptyPrefix \o <<"n", "e", "w", "_">>
EmptyBoth == EmptyPrefix \o <<"b", "o", "t", "h", "_">>

\* Steps 1 and 2 of getUnifiedColumns: header content -> { oldCol, newCol }
UnifiedHeaderMap(oldHeaders, newHeaders) ==
  LET oldKeys == RowKeys(oldHeaders)
      newKeys == RowKeys(newHeaders)
      OldStep(m, i) ==
        LET col == oldKeys[i]
            content == TrimmedText(Cell(oldHeaders, col))
        IN IF content # <<>>
           THEN MapSet(m, content, [oldCol |-> col, newCol |-> NoCol])
           ELSE MapSet(m, EmptyOld \o col, [oldCol |-> col, newCol |-> NoCol])
      NewStep(m, i) ==
        LET col == newKeys[i]
            content == TrimmedText(Cell(newHeaders, col))
            oldEmptyKey == EmptyOld \o col
        IN IF content # <<>>
           THEN IF MapHas(m, content)
                THEN MapSet(m, content, [MapGet(m, content) EXCEPT !.newCol = col])
                ELSE MapSet(m, content, [oldCol |-> NoCol, newCol |-> col])
           ELSE IF MapHas(m, oldEmptyKey)
                THEN LET both == [MapGet(m, oldEmptyKey) EXCEPT !.newCol = col]
                     IN MapDelete(MapSet(MapSet(m, oldEmptyKey, both),
                                         EmptyBoth \o col, both),
                                  oldEmptyKey)
                ELSE MapSet(m, EmptyNew \o col, [oldCol |-> NoCol, newCol |-> col])
  IN FoldOver(Len(newKeys), FoldOver(Len(oldKeys), <<>>, OldStep), NewStep)

\* The column type with the test of the second conditional on the wrong side
ColumnTypeByNewCol(mapping) ==
  IF mapping.oldCol # NoCol /\ mapping.newCol # NoCol THEN "normal"
  ELSE IF mapping.newCol # NoCol THEN "deleted"
  ELSE "added"

\* mapping.oldCol && mapping.newCol ? 'normal' : mapping.oldCol ? 'deleted' : 'added'
ColumnType(mapping) ==
  IF mapping.oldCol # NoCol /\ mapping.newCol # NoCol THEN "normal"
  ELSE IF mapping.oldCol # NoCol THEN "deleted"
  ELSE "added"

ShownHeader(header) == IF StartsWith(header, EmptyPrefix) THEN BlankColumn ELSE header

\* Step 3 of getUnifiedColumns: the map as an array
UnifiedColumnsOf(headerMap, newKeys) ==
  LET \* the columns of File B in their order, each taking the first entry
      \* of the map that carries it and was not taken before
      ByNewCol(acc, i) ==
        LET Hit(j) == /\ headerMap[j].value.newCol = newKeys[i]
                      /\ headerMap[j].key \notin acc.processed
        IN IF \E j \in 1..Len(headerMap) : Hit(j)
           THEN LET j == CHOOSE k \in 1..Len(headerMap) :
                           Hit(k) /\ \A l \in 1..(k - 1) : ~Hit(l)
                    e == headerMap[j]
                IN [processed |-> acc.processed \cup {e.key},
                    result |-> Append(acc.result,
                                 [header |-> ShownHeader(e.key),
                                  oldCol |-> e.value.oldCol,
                                  newCol |-> e.value.newCol,
                                  type |-> ColumnType(e.value)])]
           ELSE acc
      \* then what is left of the map, as deleted columns
      Rest(first) ==
        LET Left(j) ==
              LET e == headerMap[j]
              IN IF e.key \notin first.processed
                 THEN <<[header |-> ShownHeader(e.key), oldCol |-> e.value.oldCol,
                         newCol |-> e.value.newCol, type |-> "deleted"]>>
                 ELSE <<>>
        IN first.result \o ConcatOver(Len(headerMap), Left)
  IN With(FoldOver(Len(newKeys), [processed |-> {}, result |-> <<>>], ByNewCol), Rest)

getUnifiedColumns(diff) ==
  LET oldHeaders == IF diff.oldData = <<>> THEN <<>> ELSE diff.oldData[1]
      newHeaders == IF diff.newData = <<>> THEN <<>> ELSE diff.newData[1]
  IN With(UnifiedHeaderMap(oldHeaders, newHeaders), LAMBDA headerMap :
       UnifiedColumnsOf(headerMap, RowKeys(newHeaders)))

\* getAllRows numbering the data rows from 1, the header row not counted
getAllRowsWithoutHeaderOffset(diff) ==
  LET oldRows == Slice1(diff.oldData)
      newRows == Slice1(diff.newData)
      OldStep(m, i) ==
        LET key == RowKey(oldRows[i], OldDash, i - 1)
        IN MapSet(m, key, [key |-> key, oldRow |-> <<oldRows[i]>>,
                           oldIndex |-> (i - 1) + 1,
                           newRow |-> NoRow, newIndex |-> NoIndex])
      NewStep(m, i) ==
        LET key == RowKey(newRows[i], NewDash, i - 1)
        IN IF MapHas(m, key)
           THEN MapSet(m, key, [MapGet(m, key) EXCEPT !.newRow = <<newRows[i]>>,
                                                      !.newIndex = (i - 1) + 1])
           ELSE MapSet(m, key, [key |-> key, oldRow |-> NoRow, oldIndex |-> NoIndex,
                                newRow |-> <<newRows[i]>>, newIndex |-> (i - 1) + 1])
  IN With(FoldOver(Len(newRows), FoldOver(Len(oldRows), <<>>, OldStep), NewStep),
          LAMBDA rowMap : [i \in 1..Len(rowMap) |-> rowMap[i].value])

getAllRows(diff) ==
  LET oldRows == Slice1(diff.oldData)
      newRows == Slice1(diff.newData)
      OldStep(m, i) ==
        LET key == RowKey(oldRows[i], OldDash, i - 1)
        IN MapSet(m, key, [key |-> key, oldRow |-> <<oldRows[i]>>,
                           oldIndex |-> (i - 1) + 2,
                           newRow |-> NoRow, newIndex |-> NoIndex])
      NewStep(m, i) ==
        LET key == RowKey(newRows[i], NewDash, i - 1)
        IN IF MapHas(m, key)
           THEN MapSet(m, key, [MapGet(m, key) EXCEPT !.newRow = <<newRows[i]>>,
                                                      !.newIndex = (i - 1) + 2])
           ELSE MapSet(m, key, [key |-> key, oldRow |-> NoRow, oldIndex |-> NoIndex,
                                newRow |-> <<newRows[i]>>, newIndex |-> (i - 1) + 2])
  IN With(FoldOver(Len(newRows), FoldOver(Len(oldRows), <<>>, OldStep), NewStep),
          LAMBDA rowMap : [i \in 1..Len(rowMap) |-> rowMap[i].value])

\* rowChange key -> change; a later change of the same key replaces an earlier
buildRowChangeMap(rowChanges) ==
  FoldOver(Len(rowChanges), <<>>,
           LAMBDA m, i : MapSet(m, rowChanges[i].rowKey, rowChanges[i]))

\* `${row}-${header}`
CellKey(row, header) == DecimalText(row) \o <<"-">> \o header

buildCellChangeMap(differences) ==
  FoldOver(Len(differences), <<>>,
           LAMBDA m, i : MapSet(m, CellKey(differences[i].row, differences[i].header),
                                differences[i]))

NoCellDiff == <<>>   \* cellChanges.get(cellKey): undefined

\* rowChange?.type
RowChangeType(rowChanges, key) ==
  IF MapHas(rowChanges, key) THEN MapGet(rowChanges, key).type ELSE "none"

\* rowInfo.oldIndex || rowInfo.newIndex
IndexForCellKey(rowInfo) ==
  IF rowInfo.oldIndex # NoIndex THEN rowInfo.oldIndex ELSE rowInfo.newIndex

\* One td of a data column in buildUnifiedBody: its class and what it shows
UnifiedCell(rowInfo, col, cellChanges, rowChangeType) ==
  LET oldValue == IF col.oldCol # NoCol
                  THEN IF rowInfo.oldRow # NoRow
                       THEN Cell(rowInfo.oldRow[1], col.oldCol) ELSE Undefined
                  ELSE Null
      newValue == IF col.newCol # NoCol
                  THEN IF rowInfo.newRow # NoRow
                       THEN Cell(rowInfo.newRow[1], col.newCol) ELSE Undefined
                  ELSE Null
      cellKey == CellKey(IndexForCellKey(rowInfo), col.header)
  IN IF MapHas(cellChanges, cellKey)
     THEN [className |-> "cell-modified",
           cellDiff |-> <<MapGet(cellChanges, cellKey)>>, value |-> Null]
     ELSE IF col.type = "added"
     THEN [className |-> "cell-added", cellDiff |-> NoCellDiff, value |-> newValue]
     ELSE IF col.type = "deleted"
     THEN [className |-> "cell-deleted", cellDiff |-> NoCellDiff, value |-> oldValue]
     ELSE IF rowChangeType = "deleted"
     THEN [className |-> "cell-deleted", cellDiff |-> NoCellDiff, value |-> oldValue]
     ELSE IF rowChangeType = "added"
     THEN [className |-> "cell-added", cellDiff |-> NoCellDiff, value |-> newValue]
     ELSE [className |-> "cell-unchanged", cellDiff |-> NoCellDiff,
           value |-> IF Truthy(newValue) THEN newValue ELSE oldValue]

\* The rows of the tbody, each with its class, its two index cells and its
\* data cells
UnifiedBodyOf(rows, columns, cellChanges, rowChanges) ==
  [r \in 1..Len(rows) |->
     With(RowChangeType(rowChanges, rows[r].key), LAMBDA rowChangeType :
       [className |-> IF rowChangeType = "added" THEN "row-added"
                      ELSE IF rowChangeType = "deleted" THEN "row-deleted"
                      ELSE "",
        oldIdx |-> rows[r].oldIndex,
        newIdx |-> rows[r].newIndex,
        cells |-> [c \in 1..Len(columns) |->
                     UnifiedCell(rows[r], columns[c], cellChanges, rowChangeType)]])]

\* buildUnifiedBody from its getAllRows and getUnifiedColumns on
buildUnifiedBodyOf(diff, rows, columns) ==
  With(buildCellChangeMap(diff.differences), LAMBDA cellChanges :
    With(buildRowChangeMap(diff.rowChanges), LAMBDA rowChanges :
      UnifiedBodyOf(rows, columns, cellChanges, rowChanges)))

buildUnifiedBody(diff) ==
  With(getAllRows(diff), LAMBDA rows :
    With(getUnifiedColumns(diff), LAMBDA columns :
      buildUnifiedBodyOf(diff, rows, columns)))

\* only the cells showing an old and a new value taken as changes
IsModifiedCell(td) == td.className = "cell-modified"

\* the cells a change navigation stops at
IsChangedCell(td) ==
  td.className \in {"cell-modified", "cell-added", "cell-deleted"}

\* collectChangedCells: the changed cells of the tbody, row by row, each as
\* the positions of its tr and its td
collectChangedCells(tbody) ==
  ConcatOver(Len(tbody), LAMBDA r :
    ConcatOver(Len(tbody[r].cells), LAMBDA c :
      IF IsChangedCell(tbody[r].cells[c]) THEN <<[row |-> r, cell |-> c]>> ELSE <<>>))

\* a % b of JavaScript for b > 0: the result has the sign of a
JsRemainder(a, b) == IF a >= 0 THEN a % b ELSE -((-a) % b)

\* navigateToChange('next') stopping at the last change
NextIndexNoWrap(index, length) ==
  IF index + 1 < length THEN index + 1 ELSE index

\* (this.currentChangeIndex + 1) % this.changedCells.length
NextIndex(index, length) == JsRemainder(index + 1, length)

\* (this.currentChangeIndex - 1 + this.changedCells.length) % this.changedCells.length
PrevIndex(index, length) == JsRemainder(index - 1 + length, length)

\* `${current} / ${total}`
CounterText(current, total) ==
  DecimalText(current) \o <<" ", "/", " ">> \o DecimalText(total)

\* the buttons disabled while no change is selected, not while there is none
updateNavigationUIDisabledUntilSelected(cells, index) ==
  LET total == Len(cells)
      current == IF index >= 0 THEN index + 1 ELSE 0
  IN <<[counter |-> CounterText(current, total),
        prevDisabled |-> index < 0, nextDisabled |-> index < 0]>>

\* updateNavigationUI: what it writes to the counter and the two buttons
updateNavigationUI(cells, index) ==
  LET total == Len(cells)
      current == IF index >= 0 THEN index + 1 ELSE 0
  IN <<[counter |-> CounterText(current, total),
        prevDisabled |-> total = 0, nextDisabled |-> total = 0]>>

-----------------------------------------------------------------------------
(* ExcelParser.areValuesEqual (js/excelParser.js, the parser object).      *)

\* v === null || v === undefined || v === ''
IsEmptyValue(v) == v = Null \/ v = Undefined \/ v = EmptyString

\* areValuesEqual comparing the strings as they are, not trimmed
areValuesEqualUntrimmed(a, b) ==
  IF IsEmptyValue(a) THEN IsEmptyValue(b)
  ELSE IF IsEmptyValue(b) THEN FALSE
  ELSE StringOf(a) = StringOf(b)

areValuesEqual(a, b) ==
  IF IsEmptyValue(a) THEN IsEmptyValue(b)
  ELSE IF IsEmptyValue(b) THEN FALSE
  ELSE Trim(StringOf(a)) = Trim(StringOf(b))

-----------------------------------------------------------------------------
(* FileHandler (js/fileHandler.js) and the controller's file slots and     *)
(* Start Comparing button (main.js, class ExcelDiffer).  A file is its     *)
(* name and its size in bytes; a slot holds <<file>> or NoFile.            *)

NoFile == <<>>      \* fileA / fileB: null
NoFiles == [A |-> NoFile, B |-> NoFile]

LowerLetters == <<"a", "b", "c", "d", "e", "f", "g", "h", "i", "j", "k", "l", "m",
                  "n", "o", "p", "q", "r", "s", "t", "u", "v", "w", "x", "y", "z">>

\* one character with the case ignored, as the i flag of the pattern does
LowerCase(ch) ==
  IF \E i \in 1..Len(Letters) : Letters[i] = ch
  THEN LowerLetters[CHOOSE i \in 1..Len(Letters) : Letters[i] = ch]
  ELSE ch

EndsWithIgnoringCase(cs, suffix) ==
  /\ Len(cs) >= Len(suffix)
  /\ \A i \in 1..Len(suffix) :
       LowerCase(cs[Len(cs) - Len(suffix) + i]) = suffix[i]

\* file.name.match(/\.(xlsx|xls)$/i)
IsExcelName(name) ==
  \/ EndsWithIgnoringCase(name, <<".", "x", "l", "s", "x">>)
  \/ EndsWithIgnoringCase(name, <<".", "x", "l", "s">>)

\* this.fileA && this.fileB
BothFiles(files) == files.A # NoFile /\ files.B # NoFile

\* the callback enabling Start Comparing as soon as one file is there
handleFileUploadEitherFile(files, disabled, slot, type) ==
  LET stored == [files EXCEPT ![type] = slot]
  IN [files |-> stored,
      disabled |-> IF stored.A # NoFile \/ stored.B # NoFile THEN FALSE ELSE disabled]

\* ExcelDiffer.handleFileUpload(file, type): the application's slots and the
\* button's disabled after it; slot is <<file>> or NoFile (null)
handleFileUpload(files, disabled, slot, type) ==
  LET stored == [files EXCEPT ![type] = slot]
  IN [files |-> stored,
      disabled |-> IF BothFiles(stored) THEN FALSE ELSE disabled]

\* FileHandler.removeFile up to its callback: the handler's slots and the
\* button's disabled
removeFile(files, disabled, type) ==
  LET stored == [files EXCEPT ![type] = NoFile]
  IN [files |-> stored,
      disabled |-> IF ~BothFiles(stored) THEN TRUE ELSE disabled]

-----------------------------------------------------------------------------
(* DiffEngine.compare on the engine instance (js/diffEngine.js) and the    *)
(* controller that keeps it (main.js, class ExcelDiffer).                  *)

\* A parsed workbook { sheetNames, sheets }; MissingData is null.
Workbook(names, datas) == [missing |-> FALSE, sheetNames |-> names, sheets |-> datas]
MissingData == [missing |-> TRUE, sheetNames |-> <<>>, sheets |-> <<>>]

HasSheet(wb, name) == \E i \in 1..Len(wb.sheetNames) : wb.sheetNames[i] = name

\* data.sheets[sheetName]?.data || []
SheetData(wb, name) ==
  IF HasSheet(wb, name)
  THEN wb.sheets[CHOOSE i \in 1..Len(wb.sheetNames) : wb.sheetNames[i] = name]
  ELSE <<>>

\* new Set([...sheetsA, ...sheetsB]) in insertion order
AllSheets(dataA, dataB) ==
  LET names == dataA.sheetNames \o dataB.sheetNames
      Step(acc, i) ==
        IF \E j \in 1..Len(acc) : acc[j] = names[i] THEN acc ELSE Append(acc, names[i])
  IN FoldOver(Len(names), <<>>, Step)

\* The constructor's results object
InitialResults ==
  [summary |-> [totalSheets |-> 0, modifiedSheets |-> 0,
                addedSheets |-> 0, deletedSheets |-> 0],
   sheets |-> <<>>]

\* The entry compare pushes for a sheet of both files: what compareSheets
\* returned, with the name, and the status set only when something changed
ComparedSheet(sheetName, both) ==
  LET changed == \/ Len(both.differences) > 0
                 \/ Len(both.rowChanges) > 0
                 \/ Len(both.columnChanges) > 0
  IN [sheetName |-> sheetName,
      status |-> IF changed THEN "modified" ELSE "undefined",
      differences |-> both.differences, rowChanges |-> both.rowChanges,
      columnChanges |-> both.columnChanges,
      oldData |-> both.oldData, newData |-> both.newData]

\* The forEach body of compare for one sheet name: the entry pushed
SheetResult(dataA, dataB, sheetName) ==
  LET inA == HasSheet(dataA, sheetName)
      inB == HasSheet(dataB, sheetName)
  IN IF inA /\ inB
     THEN With(SheetData(dataA, sheetName), LAMBDA sheetA :
            With(SheetData(dataB, sheetName), LAMBDA sheetB :
              With(compareSheets(sheetA, sheetB), LAMBDA both :
                ComparedSheet(sheetName, both))))
     ELSE IF inB
     THEN [sheetName |-> sheetName, status |-> "added",
           differences |-> <<>>, rowChanges |-> <<>>, columnChanges |-> <<>>,
           oldData |-> <<>>, newData |-> SheetData(dataB, sheetName)]
     ELSE [sheetName |-> sheetName, status |-> "deleted",
           differences |-> <<>>, rowChanges |-> <<>>, columnChanges |-> <<>>,
           oldData |-> SheetData(dataA, sheetName), newData |-> <<>>]

\* this.results after one pass of compare's forEach, for the entry sr
Pushed(r, sr) ==
  LET Bump(field, st) == IF sr.status = st THEN r.summary[field] + 1
                         ELSE r.summary[field]
  IN [summary |-> [totalSheets |-> r.summary.totalSheets,
                   modifiedSheets |-> Bump("modifiedSheets", "modified"),
                   addedSheets |-> Bump("addedSheets", "added"),
                   deletedSheets |-> Bump("deletedSheets", "deleted")],
      sheets |-> Append(r.sheets, sr)]

\* compare taking a missing workbook for one without sheets
compareMissingAsEmpty(res, dataA, dataB) ==
  With(AllSheets(dataA, dataB), LAMBDA allSheets :
    LET Step(r, i) ==
          With(SheetResult(dataA, dataB, allSheets[i]), LAMBDA sr : Pushed(r, sr))
    IN [FoldOver(Len(allSheets), res, Step)
          EXCEPT !.summary.totalSheets = Len(allSheets)])

\* this.results after compare(dataA, dataB), from this.results = res before
\* it; compare returns this.results.
compare(res, dataA, dataB) ==
  IF dataA.missing \/ dataB.missing THEN res
  ELSE With(AllSheets(dataA, dataB), LAMBDA allSheets :
         LET Step(r, i) ==
               With(SheetResult(dataA, dataB, allSheets[i]), LAMBDA sr : Pushed(r, sr))
         IN [FoldOver(Len(allSheets), res, Step)
               EXCEPT !.summary.totalSheets = Len(allSheets)])

-----------------------------------------------------------------------------
(* Inputs: parsed sheets as ExcelParser.parseSheet produces them (every    *)
(* row of a sheet has the sheet's width; an empty sheet is []).            *)

Perms(n) == {p \in [1..n -> 1..n] : \A i, j \in 1..n : p[i] = p[j] => i = j}

\* The sheet with its columns moved: column c of the result is column p[c]
PermuteCols(sheet, p) ==
  [r \in 1..Len(sheet) |-> [c \in 1..Len(sheet[r]) |-> sheet[r][p[c]]]]

\* The sheet with its data rows moved: data row i of the result is data row q[i]
PermuteRows(sheet, q) ==
  [r \in 1..Len(sheet) |-> IF r = 1 THEN sheet[1] ELSE sheet[1 + q[r - 1]]]

RowSets(rows, n) == UNION {[1..m -> rows] : m \in 0..n}

HdrVals == {Null, Str(<<"N">>), Str(<<"E", " ">>)}

\* any header row of 1..MaxCols columns over one data row "1", "2", ...
HeaderSheets ==
  UNION {{<<h, [c \in 1..w |-> Str(<<DigitChars[c + 1]>>)]>> : h \in [1..w -> HdrVals]}
         : w \in 1..MaxCols}

KeyVals == {Null, Str(<<"x">>), Str(<<"y">>), Num(<<"0">>),
            Str(<<"n", "e", "w", "-", "0">>)}

\* one column "N" and up to MaxRows data rows
KeySheets ==
  {<<<<Str(<<"N">>)>>>> \o rs : rs \in RowSets({<<k>> : k \in KeyVals}, MaxRows)}

\* columns "N", "E" and up to MaxRows data rows
KeyedSheets ==
  {<<<<Str(<<"N">>), Str(<<"E">>)>>>> \o rs :
     rs \in RowSets({<<k, v>> : k \in KeyVals, v \in {Str(<<"p">>), Str(<<"q">>)}},
                    MaxRows)}

CellVals == {Null, EmptyString, Str(<<"x">>), Str(<<"x", " ">>),
             Num(<<"5">>), Str(<<"5">>)}

\* row "k" with one cell under "E"; in File B "E" may have moved to column C
CellSheetsOld ==
  {<<<<Str(<<"N">>), Str(<<"E">>)>>, <<Str(<<"k">>), v>>>> : v \in CellVals}

CellSheetsNew ==
  CellSheetsOld \cup
  {<<<<Str(<<"N">>), Str(<<"D">>), Str(<<"E">>)>>, <<Str(<<"k">>), Str(<<"d">>), v>>>>
     : v \in CellVals}

\* header texts that read like the keys the viewer gives blank columns
ReservedVals == {Null, Str(EmptyOld \o <<"B">>), Str(EmptyNew \o <<"B">>),
                 Str(EmptyBoth \o <<"B">>)}

ReservedSheets ==
  {<<h, <<Str(<<"1">>), Str(<<"2">>)>>>> : h \in [1..2 -> ReservedVals]}

InputPairs ==
  ((HeaderSheets \cup {<<>>}) \X (HeaderSheets \cup {<<>>}))
  \cup (ReservedSheets \X ReservedSheets)
  \cup UNION {{<<s, PermuteCols(s, p)>> : p \in Perms(Len(s[1]))} : s \in HeaderSheets}
  \cup (KeySheets \X KeySheets)
  \cup UNION {{<<s, PermuteRows(s, q)>> : q \in Perms(Len(s) - 1)} : s \in KeyedSheets}
  \cup (CellSheetsOld \X CellSheetsNew)

Values == CellVals \cup {Undefined, Str(<<" ">>), Str(<<" ", "x">>), Str(<<"y">>),
                         Num(<<"0">>), Str(<<"5", " ">>)}

SheetX == <<<<Str(<<"N">>)>>, <<Str(<<"x">>)>>>>
SheetY == <<<<Str(<<"N">>)>>, <<Str(<<"y">>)>>>>

Workbooks ==
  {Workbook(<<"S1">>, <<SheetX>>), Workbook(<<"S1">>, <<SheetY>>),
   Workbook(<<"S1", "S2">>, <<SheetX, SheetX>>), Workbook(<<"S2">>, <<SheetY>>),
   Workbook(<<"S1">>, <<<<>>>>)}

-----------------------------------------------------------------------------
(* State.                                                                  *)

NoDiff == <<>>
NoArg == Null
NoResult == <<>>
NoReturn == [kind |-> "none", value |-> InitialResults]
NoChange == -1      \* currentChangeIndex: no change selected
NoName == <<>>      \* no column name returned yet
NoData == [dataA |-> FALSE, dataB |-> FALSE, diffResults |-> FALSE]
NoUI == <<>>        \* updateNavigationUI has not run yet
NoNav == [action |-> "none", from |-> NoChange]
NoCall == [made |-> FALSE, dataA |-> MissingData, dataB |-> MissingData]

SheetIdle ==
  /\ oldData = <<>> /\ newData = <<>>
  /\ sheetDiff = NoDiff /\ unifiedColumns = NoDiff /\ allRows = NoDiff
  /\ unifiedBody = NoDiff

\* the viewer as constructed: no changed cells, no current change
NavIdle ==
  /\ changedCells = <<>> /\ currentChangeIndex = NoChange /\ lastNav = NoNav
  /\ navigationUI = NoUI

\* getColumnName not called
ColumnIdle == colIndex = 0 /\ columnName = NoName

\* the page as ExcelDiffer.reset leaves it ("resets application to initial
\* state"): no files, no data, the upload view shown, Start Comparing disabled
UiIdle ==
  /\ handlerFiles = NoFiles /\ appFiles = NoFiles
  /\ startCompareDisabled = TRUE
  /\ loadingOverlay = "none"
  /\ uploadSectionShown = TRUE /\ diffSectionShown = FALSE
  /\ appData = NoData /\ comparePc = "idle"

EqualIdle == valueA = NoArg /\ valueB = NoArg /\ equalResult = NoResult

AppIdle ==
  /\ results = InitialResults /\ returned = NoReturn
  /\ lastCall = NoCall /\ calls = 0

sheetVars == <<oldData, newData, sheetDiff, unifiedColumns, allRows, unifiedBody>>
columnVars == <<colIndex, columnName>>
uploadVars == <<handlerFiles, appFiles, startCompareDisabled>>
runVars == <<loadingOverlay, uploadSectionShown, diffSectionShown, appData, comparePc>>
uiVars == <<uploadVars, runVars>>
navVars == <<changedCells, currentChangeIndex, lastNav, navigationUI>>
equalVars == <<valueA, valueB, equalResult>>
appVars == <<results, returned, lastCall, calls>>

-----------------------------------------------------------------------------
(* Comparing one pair of sheets.                                           *)

Init ==
  /\ \E pair \in InputPairs : oldData = pair[1] /\ newData = pair[2]
  /\ sheetDiff = NoDiff /\ unifiedColumns = NoDiff /\ allRows = NoDiff
  /\ unifiedBody = NoDiff
  /\ NavIdle /\ EqualIdle /\ AppIdle /\ ColumnIdle /\ UiIdle

\* DiffEngine.compare handing a sheet present in both files to compareSheets
CompareSheets ==
  /\ sheetDiff = NoDiff
  /\ sheetDiff' = <<compareSheets(oldData, newData)>>
  /\ UNCHANGED <<oldData, newData, unifiedColumns, allRows, unifiedBody,
                 navVars, equalVars, appVars, columnVars, uiVars>>

\* DiffViewer.compareSelectedSheets: a fresh engine's compareSheets, then
\* renderUnifiedTable with its collectChangedCells; empty sheets are refused
\* with an alert
CompareSelectedSheets ==
  /\ unifiedColumns = NoDiff
  /\ Len(oldData) # 0 /\ Len(newData) # 0
  /\ \E singleSheetDiff \in {compareSheets(oldData, newData)} :
        /\ sheetDiff' = <<singleSheetDiff>>
        /\ \E columns \in {getUnifiedColumns(singleSheetDiff)},
              rows \in {getAllRows(singleSheetDiff)} :
             /\ unifiedColumns' = <<columns>>
             /\ allRows' = <<rows>>
             /\ \E tbody \in {buildUnifiedBodyOf(singleSheetDiff, rows, columns)} :
                   /\ unifiedBody' = <<tbody>>
                   /\ changedCells' = collectChangedCells(tbody)
  /\ currentChangeIndex' = NoChange
  /\ navigationUI' = updateNavigationUI(changedCells', currentChangeIndex')
  /\ lastNav' = NoNav
  /\ UNCHANGED <<oldData, newData, equalVars, appVars, columnVars, uiVars>>

Next == CompareSheets \/ CompareSelectedSheets

Spec == Init /\ [][Next]_vars

-----------------------------------------------------------------------------
(* Stepping through the changes of a rendered unified table.               *)

NavPairs == (CellSheetsOld \X CellSheetsNew) \cup (ReservedSheets \X ReservedSheets)

InitNav ==
  /\ \E pair \in NavPairs : oldData = pair[1] /\ newData = pair[2]
  /\ sheetDiff = NoDiff /\ unifiedColumns = NoDiff /\ allRows = NoDiff
  /\ unifiedBody = NoDiff
  /\ NavIdle /\ EqualIdle /\ AppIdle /\ ColumnIdle /\ UiIdle

\* navigateToChange('next'): the Next button or the N key
NavigateNext ==
  /\ Len(changedCells) # 0
  /\ currentChangeIndex' = NextIndex(currentChangeIndex, Len(changedCells))
  /\ navigationUI' = updateNavigationUI(changedCells, currentChangeIndex')
  /\ lastNav' = [action |-> "next", from |-> currentChangeIndex]
  /\ UNCHANGED <<changedCells, sheetVars, equalVars, appVars, columnVars, uiVars>>

\* navigateToChange('prev'): the Previous button or the P key
NavigatePrev ==
  /\ Len(changedCells) # 0
  /\ currentChangeIndex' = PrevIndex(currentChangeIndex, Len(changedCells))
  /\ navigationUI' = updateNavigationUI(changedCells, currentChangeIndex')
  /\ lastNav' = [action |-> "prev", from |-> currentChangeIndex]
  /\ UNCHANGED <<changedCells, sheetVars, equalVars, appVars, columnVars, uiVars>>

\* the click listener of setupCellClickNavigation, on a changed cell
ClickChangedCell ==
  /\ unifiedBody # NoDiff
  /\ \E r \in 1..Len(unifiedBody[1]) :
       \E c \in 1..Len(unifiedBody[1][r].cells) :
         /\ IsChangedCell(unifiedBody[1][r].cells[c])
         /\ \E i \in 0..(Len(changedCells) - 1) :
              /\ changedCells[i + 1] = [row |-> r, cell |-> c]
              /\ \A j \in 0..(i - 1) : changedCells[j + 1] # [row |-> r, cell |-> c]
              /\ currentChangeIndex' = i
  /\ navigationUI' = updateNavigationUI(changedCells, currentChangeIndex')
  /\ lastNav' = [action |-> "click", from |-> currentChangeIndex]
  /\ UNCHANGED <<changedCells, sheetVars, equalVars, appVars, columnVars, uiVars>>

NextNav == CompareSelectedSheets \/ NavigateNext \/ NavigatePrev \/ ClickChangedCell

SpecNav == InitNav /\ [][NextNav]_vars

-----------------------------------------------------------------------------
(* Value equality on its own.                                              *)

InitEq ==
  /\ valueA \in Values /\ valueB \in Values /\ equalResult = NoResult
  /\ SheetIdle /\ NavIdle /\ AppIdle /\ ColumnIdle /\ UiIdle

AreValuesEqual ==
  /\ equalResult = NoResult
  /\ equalResult' = <<areValuesEqual(valueA, valueB)>>
  /\ UNCHANGED <<valueA, valueB, sheetVars, navVars, appVars, columnVars, uiVars>>

NextEq == AreValuesEqual

SpecEq == InitEq /\ [][NextEq]_vars

-----------------------------------------------------------------------------
(* Choosing the two files and running the comparison (main.js, class       *)
(* ExcelDiffer, with FileHandler).  The parsed data and the results are    *)
(* kept as set or null here; what they hold is followed under SpecApp.     *)

MaxFileSize == 50 * 1024 * 1024

FileNames == {<<"a", ".", "x", "l", "s", "x">>, <<"a", ".", "X", "L", "S">>,
              <<"a", ".", "c", "s", "v">>, <<"x", "l", "s", "x">>}

FileSizes == {1024, MaxFileSize, MaxFileSize + 1}

Files == [name : FileNames, size : FileSizes]

SlotTypes == {"A", "B"}

\* compareFiles is between its start and its finally
Comparing == comparePc \in {"parsingA", "parsingB"}

InitUi ==
  /\ UiIdle
  /\ SheetIdle /\ NavIdle /\ EqualIdle /\ AppIdle /\ ColumnIdle

\* FileHandler.handleFileSelect(file, type), from the file input's change or a
\* drop on the upload box, with the callback ExcelDiffer.handleFileUpload
HandleFileSelect ==
  /\ uploadSectionShown /\ ~Comparing
  /\ \E file \in Files, type \in SlotTypes :
       IF ~IsExcelName(file.name)
       THEN UNCHANGED uploadVars
       ELSE /\ handlerFiles' = [handlerFiles EXCEPT ![type] = <<file>>]
            /\ \E app \in {handleFileUpload(appFiles, startCompareDisabled,
                                            <<file>>, type)} :
                 /\ appFiles' = app.files
                 /\ startCompareDisabled' = app.disabled
  /\ UNCHANGED <<runVars, sheetVars, navVars, equalVars, appVars, columnVars>>

\* FileHandler.removeFile(type), the remove button of a slot, with its callback
RemoveFile ==
  /\ uploadSectionShown /\ ~Comparing
  /\ \E type \in SlotTypes :
       \E removed \in {removeFile(handlerFiles, startCompareDisabled, type)} :
         /\ handlerFiles' = removed.files
         /\ \E app \in {handleFileUpload(appFiles, removed.disabled, NoFile, type)} :
              /\ appFiles' = app.files
              /\ startCompareDisabled' = app.disabled
  /\ UNCHANGED <<runVars, sheetVars, navVars, equalVars, appVars, columnVars>>

\* ExcelDiffer.reset, the Back button of the diff view
ResetApp ==
  /\ diffSectionShown /\ ~Comparing
  /\ appData' = NoData
  /\ \E removedA \in {removeFile(handlerFiles, startCompareDisabled, "A")} :
       \E appA \in {handleFileUpload(NoFiles, removedA.disabled, NoFile, "A")} :
         \E removedB \in {removeFile(removedA.files, appA.disabled, "B")} :
           \E appB \in {handleFileUpload(appA.files, removedB.disabled, NoFile, "B")} :
             /\ handlerFiles' = removedB.files
             /\ appFiles' = appB.files
  /\ diffSectionShown' = FALSE
  /\ uploadSectionShown' = TRUE
  /\ startCompareDisabled' = TRUE
  /\ UNCHANGED <<loadingOverlay, comparePc, sheetVars, navVars, equalVars, appVars, columnVars>>

\* compareFiles from the click on Start Comparing to its first await, or to
\* its finally when a file is missing
StartComparison ==
  /\ uploadSectionShown /\ ~startCompareDisabled /\ ~Comparing
  /\ IF ~BothFiles(appFiles)
     THEN /\ loadingOverlay' = "none"
          /\ comparePc' = "failed"
     ELSE /\ loadingOverlay' = "flex"
          /\ comparePc' = "parsingA"
  /\ UNCHANGED <<uploadSectionShown, diffSectionShown, appData, uploadVars,
                 sheetVars, navVars, equalVars, appVars, columnVars>>

\* the promise of excelParser.parse(this.fileA) settles: the reader's onload
\* resolves or rejects it, its onerror rejects it
ParseASettles ==
  /\ comparePc = "parsingA"
  /\ \E resolved \in BOOLEAN :
       IF resolved
       THEN /\ appData' = [appData EXCEPT !.dataA = TRUE]
            /\ comparePc' = "parsingB"
            /\ UNCHANGED loadingOverlay
       ELSE /\ loadingOverlay' = "none"
            /\ comparePc' = "failed"
            /\ UNCHANGED appData
  /\ UNCHANGED <<uploadSectionShown, diffSectionShown, uploadVars,
                 sheetVars, navVars, equalVars, appVars, columnVars>>

\* compareFiles hiding the overlay at the end of its try block, with no finally
ParseBSettlesWithoutFinally ==
  /\ comparePc = "parsingB"
  /\ \E outcome \in {"resolved", "rejected", "compare threw", "init threw"} :
       /\ appData' = [appData EXCEPT
                        !.dataB = outcome # "rejected",
                        !.diffResults = outcome \in {"resolved", "init threw"}]
       /\ IF outcome = "resolved"
          THEN /\ uploadSectionShown' = FALSE
               /\ diffSectionShown' = TRUE
               /\ comparePc' = "succeeded"
               /\ loadingOverlay' = "none"
          ELSE /\ UNCHANGED <<uploadSectionShown, diffSectionShown, loadingOverlay>>
               /\ comparePc' = "failed"
  /\ UNCHANGED <<uploadVars, sheetVars, navVars, equalVars, appVars, columnVars>>

\* the promise of excelParser.parse(this.fileB) settles, and compareFiles runs
\* to its end: compare, diffViewer.init and the switch of the views, or the
\* catch when the promise was rejected or compare or init threw
ParseBSettles ==
  /\ comparePc = "parsingB"
  /\ \E outcome \in {"resolved", "rejected", "compare threw", "init threw"} :
       /\ appData' = [appData EXCEPT
                        !.dataB = outcome # "rejected",
                        !.diffResults = outcome \in {"resolved", "init threw"}]
       /\ IF outcome = "resolved"
          THEN /\ uploadSectionShown' = FALSE
               /\ diffSectionShown' = TRUE
               /\ comparePc' = "succeeded"
          ELSE /\ UNCHANGED <<uploadSectionShown, diffSectionShown>>
               /\ comparePc' = "failed"
  /\ loadingOverlay' = "none"
  /\ UNCHANGED <<uploadVars, sheetVars, navVars, equalVars, appVars, columnVars>>

NextUi ==
  \/ HandleFileSelect \/ RemoveFile \/ ResetApp
  \/ StartComparison \/ ParseASettles \/ ParseBSettles

SpecUi == InitUi /\ [][NextUi]_vars

\* a FileReader always ends its read with load or error, so a pending parse
\* settles
SpecUiFair == SpecUi /\ WF_vars(ParseASettles) /\ WF_vars(ParseBSettles)

-----------------------------------------------------------------------------
(* Column names on their own.                                              *)

InitCol ==
  /\ colIndex \in 0..MaxColumnIndex /\ columnName = NoName
  /\ SheetIdle /\ NavIdle /\ EqualIdle /\ AppIdle /\ UiIdle

GetColumnName ==
  /\ columnName = NoName
  /\ columnName' = getColumnName(colIndex)
  /\ UNCHANGED <<colIndex, sheetVars, navVars, equalVars, appVars, uiVars>>

NextCol == GetColumnName

SpecCol == InitCol /\ [][NextCol]_vars

-----------------------------------------------------------------------------
(* The engine instance across calls: ExcelDiffer creates one DiffEngine in *)
(* its constructor and calls compare on it for every comparison.           *)

InitApp ==
  SheetIdle /\ NavIdle /\ EqualIdle /\ AppIdle /\ ColumnIdle /\ UiIdle

\* compareFiles, from the parsed workbooks to this.diffResults
CompareFiles ==
  /\ calls < MaxCalls
  /\ \E dataA \in Workbooks, dataB \in Workbooks :
       /\ results' = compare(results, dataA, dataB)
       /\ returned' = [kind |-> "value", value |-> results']
       /\ lastCall' = [made |-> TRUE, dataA |-> dataA, dataB |-> dataB]
  /\ calls' = calls + 1
  /\ UNCHANGED <<sheetVars, navVars, equalVars, columnVars, uiVars>>

\* compare called with a dataset missing (null) on either side
CompareMissing ==
  /\ calls < MaxCalls
  /\ \E dataA \in Workbooks \cup {MissingData}, dataB \in Workbooks \cup {MissingData} :
       /\ dataA.missing \/ dataB.missing
       /\ results' = compare(results, dataA, dataB)
       /\ returned' = [kind |-> "value", value |-> results']
       /\ lastCall' = [made |-> TRUE, dataA |-> dataA, dataB |-> dataB]
  /\ calls' = calls + 1
  /\ UNCHANGED <<sheetVars, navVars, equalVars, columnVars, uiVars>>

\* ExcelDiffer.reset: the application's fields are cleared, the engine is kept
Reset ==
  /\ lastCall.made
  /\ lastCall' = NoCall
  /\ returned' = NoReturn
  /\ UNCHANGED <<results, calls, sheetVars, navVars, equalVars, columnVars, uiVars>>

NextApp == CompareFiles \/ CompareMissing \/ Reset

SpecApp == InitApp /\ [][NextApp]_vars

-----------------------------------------------------------------------------
(* Properties of one sheet comparison (specification Spec).                *)

\* File B is File A with its columns moved, each header with its cells
ColumnPermuted ==
  /\ Len(oldData) > 0
  /\ \E p \in Perms(Len(oldData[1])) : newData = PermuteCols(oldData, p)

\* File B is File A with its data rows moved
RowPermuted ==
  /\ Len(oldData) > 0
  /\ \E q \in Perms(Len(oldData) - 1) : newData = PermuteRows(oldData, q)

Compared == sheetDiff # NoDiff
Rendered == unifiedColumns # NoDiff

CountType(changes, type) ==
  Cardinality({i \in 1..Len(changes) : changes[i].type = type})

\* C1: comparing a sheet with a column-permuted copy of it reports no added
\* and no deleted column, neither in the engine's column changes nor in the
\* unified column list.
C1_ReorderedColumnsNotAddedOrDeleted ==
  (Rendered /\ ColumnPermuted) =>
    /\ CountType(sheetDiff[1].columnChanges, "added") = 0
    /\ CountType(sheetDiff[1].columnChanges, "deleted") = 0
    /\ CountType(unifiedColumns[1], "added") = 0
    /\ CountType(unifiedColumns[1], "deleted") = 0

\* C2: comparing a sheet with a column-permuted copy of it leaves every data
\* row matched (no added row, no deleted row) and records no cell difference.
C2_ReorderedColumnsKeepRowsAndCells ==
  (Compared /\ ColumnPermuted) =>
    /\ sheetDiff[1].rowChanges = <<>>
    /\ sheetDiff[1].differences = <<>>

\* Some column is non-blank in every data row and distinct from row to row
QualifyingKeyColumn ==
  \E c \in 1..Len(oldData[1]) :
    /\ \A r \in 2..Len(oldData) :
         ~(oldData[r][c].t \in {"null", "undefined"}) /\ Trim(StringOf(oldData[r][c])) # <<>>
    /\ \A r1, r2 \in 2..Len(oldData) :
         r1 # r2 => Trim(StringOf(oldData[r1][c])) # Trim(StringOf(oldData[r2][c]))

\* C3: when some column qualifies as a key, comparing a sheet with a
\* row-permuted copy of it reports no added and no deleted row, and every
\* row is one unified row whose oldIndex is its row number in File A and
\* whose newIndex is its row number in File B.
C3_ReorderedRowsStayMatched ==
  (Rendered /\ RowPermuted /\ QualifyingKeyColumn) =>
    /\ sheetDiff[1].rowChanges = <<>>
    /\ \A r \in 2..Len(oldData) :
         \E u \in 1..Len(allRows[1]) :
           LET e == allRows[1][u]
           IN /\ e.oldRow = <<oldData[r]>> /\ e.oldIndex = r
              /\ e.newIndex \in 2..Len(newData)
              /\ e.newRow = <<newData[e.newIndex]>>
              /\ newData[e.newIndex] = oldData[r]

\* C4: the number of added rows (columns) of comparing (A, B) is the number
\* of deleted rows (columns) of comparing (B, A), and the other way round.
C4_SwappedCountsWhenSwapped ==
  Compared =>
    LET forward == sheetDiff[1]
        backward == compareSheets(newData, oldData)
    IN /\ CountType(forward.rowChanges, "added") = CountType(backward.rowChanges, "deleted")
       /\ CountType(forward.rowChanges, "deleted") = CountType(backward.rowChanges, "added")
       /\ CountType(forward.columnChanges, "added")
            = CountType(backward.columnChanges, "deleted")
       /\ CountType(forward.columnChanges, "deleted")
            = CountType(backward.columnChanges, "added")

\* The row key the engine gives sheet row r (the header being row 1)
KeyOfRow(data, prefix, r) == RowKey(data[r], prefix, r - 2)

\* The sheet rows of data that carry key k, and the i-th of them
RowsWithKey(data, prefix, k) == {r \in 2..Len(data) : KeyOfRow(data, prefix, r) = k}

NthRowWithKey(data, prefix, k, i) ==
  CHOOSE r \in RowsWithKey(data, prefix, k) :
    Cardinality({r2 \in RowsWithKey(data, prefix, k) : r2 < r}) = i - 1

AllRowKeys ==
  {KeyOfRow(oldData, OldDash, r) : r \in 2..Len(oldData)}
  \cup {KeyOfRow(newData, NewDash, r) : r \in 2..Len(newData)}

\* No two data rows of a sheet share a key, no two columns a header content
DistinctKeysAndHeaders ==
  /\ \A k \in AllRowKeys : /\ Cardinality(RowsWithKey(oldData, OldDash, k)) <= 1
                           /\ Cardinality(RowsWithKey(newData, NewDash, k)) <= 1
  /\ \A c1, c2 \in 1..Len(oldData[1]) :
       c1 # c2 => TrimmedText(oldData[1][c1]) # TrimmedText(oldData[1][c2])
  /\ \A c1, c2 \in 1..Len(newData[1]) :
       c1 # c2 => TrimmedText(newData[1][c1]) # TrimmedText(newData[1][c2])

\* Value Equality of the two cells: both blank, or neither blank and the
\* trimmed strings identical
BlankValue(v) == v.t \in {"null", "undefined"} \/ (v.t = "string" /\ v.s = <<>>)

ValueEqual(a, b) ==
  \/ BlankValue(a) /\ BlankValue(b)
  \/ ~BlankValue(a) /\ ~BlankValue(b) /\ Trim(StringOf(a)) = Trim(StringOf(b))

\* C6: a cell difference is recorded for a row and a header content exactly
\* when the row is matched, the header is in both header rows and the two
\* cells are unequal under Value Equality; the entry carries the header
\* content and both raw values.
C6_DifferenceIffUnequalByValueEquality ==
  (Compared /\ Len(oldData) > 0 /\ Len(newData) > 0 /\ DistinctKeysAndHeaders) =>
    \A r \in 2..Len(oldData), c \in 1..Len(oldData[1]) :
      LET h == TrimmedText(oldData[1][c])
          k == KeyOfRow(oldData, OldDash, r)
          recorded == {i \in 1..Len(sheetDiff[1].differences) :
                         /\ sheetDiff[1].differences[i].row = r
                         /\ sheetDiff[1].differences[i].header = h}
          unequal == {<<r2, c2>> \in (2..Len(newData)) \X (1..Len(newData[1])) :
                        /\ KeyOfRow(newData, NewDash, r2) = k
                        /\ TrimmedText(newData[1][c2]) = h
                        /\ ~ValueEqual(oldData[r][c], newData[r2][c2])}
      IN h # <<>> =>
           /\ (recorded # {}) <=> (unequal # {})
           /\ \A i \in recorded : \E rc \in unequal :
                /\ sheetDiff[1].differences[i].oldValue = oldData[r][c]
                /\ sheetDiff[1].differences[i].newValue = newData[rc[1]][rc[2]]

\* C9: comparing two sheets of which one has no row gives a result without
\* column changes, row changes and cell differences.
C9_EmptySheetGivesEmptyResult ==
  (Compared /\ (Len(oldData) = 0 \/ Len(newData) = 0)) =>
    /\ sheetDiff[1].columnChanges = <<>>
    /\ sheetDiff[1].rowChanges = <<>>
    /\ sheetDiff[1].differences = <<>>
    /\ sheetDiff[1].oldData = oldData /\ sheetDiff[1].newData = newData

\* An empty File A was compared with a File B that has a data row
C9_Witness ==
  /\ Compared /\ Len(oldData) = 0 /\ Len(newData) > 1
  /\ sheetDiff[1].rowChanges = <<>>

Larger(a, b) == IF a > b THEN a ELSE b
Smaller(a, b) == IF a < b THEN a ELSE b

\* C10: rows sharing a key are paired by order of occurrence: the i-th row
\* with key k of File A is one unified row with the i-th row with key k of
\* File B, and the surplus rows with key k are reported added (surplus in
\* File B) or deleted (surplus in File A).
C10_DuplicateKeysPairedInOrder ==
  Rendered =>
    \A k \in AllRowKeys :
      LET inA == Cardinality(RowsWithKey(oldData, OldDash, k))
          inB == Cardinality(RowsWithKey(newData, NewDash, k))
          reported(type) ==
            Cardinality({i \in 1..Len(sheetDiff[1].rowChanges) :
                           /\ sheetDiff[1].rowChanges[i].type = type
                           /\ sheetDiff[1].rowChanges[i].rowKey = k})
      IN /\ reported("added") = Larger(inB - inA, 0)
         /\ reported("deleted") = Larger(inA - inB, 0)
         /\ \A i \in 1..Smaller(inA, inB) :
              \E u \in 1..Len(allRows[1]) :
                /\ allRows[1][u].oldIndex = NthRowWithKey(oldData, OldDash, k, i)
                /\ allRows[1][u].newIndex = NthRowWithKey(newData, NewDash, k, i)

-----------------------------------------------------------------------------
(* Properties of value equality (specification SpecEq).                    *)

\* C7: areValuesEqual(a, b) is true exactly when both values are blank or
\* neither is blank and their trimmed strings are identical; it is true of
\* a value and itself, gives the same answer with its arguments swapped,
\* and is true of the number 5 and the string "5".
C7_AreValuesEqualIsValueEquality ==
  equalResult # NoResult =>
    /\ equalResult[1] = ValueEqual(valueA, valueB)
    /\ (valueA = valueB => equalResult[1])
    /\ equalResult[1] = areValuesEqual(valueB, valueA)
    /\ ((valueA = Num(<<"5">>) /\ valueB = Str(<<"5">>)) => equalResult[1])

\* The number 5 and the string "5 " were found equal
C7_Witness ==
  /\ valueA = Num(<<"5">>) /\ valueB = Str(<<"5", " ">>)
  /\ equalResult = <<TRUE>>

-----------------------------------------------------------------------------
(* Properties of the engine instance across calls (specification SpecApp). *)

MissingCall == lastCall.made /\ (lastCall.dataA.missing \/ lastCall.dataB.missing)

\* C5: what a compare call returns holds one sheet entry per distinct sheet
\* name of that call's two workbooks and summary counts of that call alone.
C5_CompareDependsOnItsWorkbooksOnly ==
  (lastCall.made /\ ~MissingCall) =>
    LET value == returned.value
        names == AllSheets(lastCall.dataA, lastCall.dataB)
    IN /\ Len(value.sheets) = Len(names)
       /\ \A i \in 1..Len(names) : value.sheets[i].sheetName = names[i]
       /\ value.summary.totalSheets = Len(names)
       /\ value.summary.addedSheets =
            Cardinality({i \in 1..Len(names) : ~HasSheet(lastCall.dataA, names[i])})
       /\ value.summary.deletedSheets =
            Cardinality({i \in 1..Len(names) : ~HasSheet(lastCall.dataB, names[i])})
       /\ value.summary.modifiedSheets <= Len(names)

\* C8 as claimed: compare with a missing workbook ends in an error, not in
\* a result value.
C8_MissingDataIsAnError ==
  MissingCall => returned.kind = "error"

\* C8: compare with a missing workbook on either side returns the results
\* object of the instance as a normal value and leaves it as it was.
C8_MissingDataReturnsResultsUnchanged ==
  [][(lastCall'.made /\ (lastCall'.dataA.missing \/ lastCall'.dataB.missing)
        /\ calls' = calls + 1)
       => (results' = results /\ returned' = [kind |-> "value", value |-> results])]_vars

\* compare with a missing workbook returned the results of an earlier
\* comparison
C8_Witness ==
  /\ MissingCall /\ returned.kind = "value"
  /\ returned.value = results /\ Len(results.sheets) > 0

-----------------------------------------------------------------------------
(* Properties of the row keys (specification Spec).                        *)

\* null, undefined, or empty after trimming
BlankAfterTrim(v) == v.t \in {"null", "undefined"} \/ Trim(StringOf(v)) = <<>>

\* The key as claimed for data row number index of a sheet
KeyAsClaimed(key, row, prefix, index) ==
  /\ key # <<>>
  /\ IF BlankAfterTrim(Cell(row, ColA))
     THEN key = prefix \o DecimalText(index)
     ELSE key = Trim(StringOf(Cell(row, ColA)))

\* C11: a data row has the positional fallback key (old-{index} in File A,
\* new-{index} in File B) when its key-column value is blank (null,
\* undefined or empty after trimming), and otherwise the trimmed string of
\* that value; no row has an empty key.
C11_FallbackKeyIffBlank ==
  Rendered =>
    \A u \in 1..Len(allRows[1]) :
      LET e == allRows[1][u]
      IN /\ e.oldIndex # NoIndex =>
              KeyAsClaimed(e.key, oldData[e.oldIndex], OldDash, e.oldIndex - 2)
         /\ e.newIndex # NoIndex =>
              KeyAsClaimed(e.key, newData[e.newIndex], NewDash, e.newIndex - 2)

\* Uniqueness of column c of a sheet: distinct non-blank values over
\* non-blank values, as a fraction <<numerator, denominator>>
NonBlankRows(data, c) == {r \in 2..Len(data) : ~BlankAfterTrim(data[r][c])}

Uniqueness(data, c) ==
  IF NonBlankRows(data, c) = {} THEN <<0, 1>>
  ELSE <<Cardinality({Trim(StringOf(data[r][c])) : r \in NonBlankRows(data, c)}),
         Cardinality(NonBlankRows(data, c))>>

\* Twice the averaged score of column c, as a fraction
ScoreTwice(c) ==
  LET a == Uniqueness(oldData, c)
      b == Uniqueness(newData, c)
  IN <<a[1] * b[2] + b[1] * a[2], a[2] * b[2]>>

ScoreHigher(c1, c2) ==
  ScoreTwice(c1)[1] * ScoreTwice(c2)[2] > ScoreTwice(c2)[1] * ScoreTwice(c1)[2]

\* the averaged score exceeds 0.9
ScoreExceedsNineTenths(c) == 10 * ScoreTwice(c)[1] > 18 * ScoreTwice(c)[2]

\* Both sheets have the same header row, of distinct non-blank headers, so
\* that every column is common to File A and File B
SameDistinctHeaders ==
  /\ Len(oldData) > 0 /\ Len(newData) > 0 /\ oldData[1] = newData[1]
  /\ \A c \in 1..Len(oldData[1]) : TrimmedText(oldData[1][c]) # <<>>
  /\ \A c1, c2 \in 1..Len(oldData[1]) :
       c1 # c2 => TrimmedText(oldData[1][c1]) # TrimmedText(oldData[1][c2])

TopRankedAboveNineTenths(c) ==
  /\ ScoreExceedsNineTenths(c)
  /\ \A c2 \in 1..Len(oldData[1]) : c2 # c => ScoreHigher(c, c2)

KeyFromColumnA(key, row, prefix, index) ==
  LET v == Cell(row, ColA)
  IN key = IF Truthy(v) /\ Trim(StringOf(v)) # <<>>
           THEN Trim(StringOf(v))
           ELSE prefix \o DecimalText(index)

-----------------------------------------------------------------------------
(* Properties of the columns (specification Spec).                         *)

ColumnsWithHeader(headers, h) ==
  {c \in 1..Len(headers) : TrimmedText(headers[c]) = h}

FirstColumnWithHeader(headers, h) ==
  CHOOSE c \in ColumnsWithHeader(headers, h) :
    \A c2 \in ColumnsWithHeader(headers, h) : c <= c2

LastColumnWithHeader(headers, h) ==
  CHOOSE c \in ColumnsWithHeader(headers, h) :
    \A c2 \in ColumnsWithHeader(headers, h) : c2 <= c

\* C13 as claimed: of several columns carrying the same header text the
\* first wins: a cell difference recorded for a header is between the first
\* column carrying it in File A and the first column carrying it in File B.
C13_FirstDuplicateHeaderWins ==
  (Compared /\ Len(oldData) > 0 /\ Len(newData) > 0) =>
    \A i \in 1..Len(sheetDiff[1].differences) :
      LET d == sheetDiff[1].differences[i]
      IN /\ d.oldCol = getColumnName(FirstColumnWithHeader(oldData[1], d.header) - 1)
         /\ d.newCol = getColumnName(FirstColumnWithHeader(newData[1], d.header) - 1)

\* C13: of several columns carrying the same header text the last wins: a
\* cell difference recorded for a header is between the last column
\* carrying it in File A and the last column carrying it in File B, and it
\* carries the values of these two columns.
C13_LastDuplicateHeaderWins ==
  (Compared /\ Len(oldData) > 0 /\ Len(newData) > 0) =>
    \A i \in 1..Len(sheetDiff[1].differences) :
      LET d == sheetDiff[1].differences[i]
          lastOld == LastColumnWithHeader(oldData[1], d.header)
          lastNew == LastColumnWithHeader(newData[1], d.header)
      IN /\ ColumnsWithHeader(oldData[1], d.header) # {}
         /\ ColumnsWithHeader(newData[1], d.header) # {}
         /\ d.oldCol = getColumnName(lastOld - 1)
         /\ d.newCol = getColumnName(lastNew - 1)
         /\ d.oldValue = oldData[d.row][lastOld]
         /\ \E r \in 2..Len(newData) : d.newValue = newData[r][lastNew]

\* A header text is carried by two columns of File A and a difference was
\* recorded for it
C13_Witness ==
  /\ Compared /\ Len(oldData) > 0 /\ Len(newData) > 0
  /\ \E i \in 1..Len(sheetDiff[1].differences) :
       LET d == sheetDiff[1].differences[i]
       IN /\ Cardinality(ColumnsWithHeader(oldData[1], d.header)) > 1
          /\ d.oldCol = getColumnName(LastColumnWithHeader(oldData[1], d.header) - 1)

\* The header of column c of a header row is blank
BlankHeader(headers, c) == TrimmedText(headers[c]) = <<>>

HasColumnChange(type, col) ==
  \E i \in 1..Len(sheetDiff[1].columnChanges) :
    /\ sheetDiff[1].columnChanges[i].type = type
    /\ sheetDiff[1].columnChanges[i].column = col

HasUnifiedColumn(type, oldCol, newCol) ==
  \E i \in 1..Len(unifiedColumns[1]) :
    /\ unifiedColumns[1][i].type = type
    /\ unifiedColumns[1][i].oldCol = oldCol
    /\ unifiedColumns[1][i].newCol = newCol

\* C14: a column with a blank header is matched when the same column
\* identifier carries a blank header in the other file, and is otherwise
\* reported added (a column of File B) or deleted (a column of File A), by
\* the engine's column changes and by the unified column list.
C14_BlankHeaderColumnsByIdentifier ==
  Rendered =>
    /\ \A c \in 1..Len(newData[1]) :
         BlankHeader(newData[1], c) =>
           LET col == getColumnName(c - 1)
           IN IF c <= Len(oldData[1]) /\ BlankHeader(oldData[1], c)
              THEN HasUnifiedColumn("normal", col, col) /\ ~HasColumnChange("added", col)
              ELSE HasUnifiedColumn("added", NoCol, col) /\ HasColumnChange("added", col)
    /\ \A c \in 1..Len(oldData[1]) :
         BlankHeader(oldData[1], c) =>
           LET col == getColumnName(c - 1)
           IN IF c <= Len(newData[1]) /\ BlankHeader(newData[1], c)
              THEN HasUnifiedColumn("normal", col, col) /\ ~HasColumnChange("deleted", col)
              ELSE HasUnifiedColumn("deleted", col, NoCol) /\ HasColumnChange("deleted", col)

\* The position of a column letter in a sheet
ColumnIndex(col) == CHOOSE c \in 1..Len(Letters) : getColumnName(c - 1) = col

C16_UnifiedColumnKinds ==
  Rendered =>
    \A i \in 1..Len(unifiedColumns[1]) :
      LET e == unifiedColumns[1][i]
      IN /\ e.oldCol # NoCol \/ e.newCol # NoCol
         /\ e.type = "normal" <=> (e.oldCol # NoCol /\ e.newCol # NoCol)
         /\ e.type = "added" <=> (e.oldCol = NoCol /\ e.newCol # NoCol)
         /\ e.type = "deleted" <=> (e.oldCol # NoCol /\ e.newCol = NoCol)

\* A unified column list with a matched, an added and a deleted column
C16_Witness ==
  /\ Rendered
  /\ \E i, j, k \in 1..Len(unifiedColumns[1]) :
       /\ unifiedColumns[1][i].type = "normal" /\ unifiedColumns[1][i].oldCol # NoCol
       /\ unifiedColumns[1][j].type = "added" /\ unifiedColumns[1][j].newCol # NoCol
       /\ unifiedColumns[1][k].type = "deleted" /\ unifiedColumns[1][k].oldCol # NoCol


-----------------------------------------------------------------------------
(* Properties of the unified rows.                                         *)

RowsRendered == allRows # NoDiff

\* the position a unified row is listed by: its row number in A when it has
\* one, its row number in B otherwise
SortKey(rowInfo) ==
  IF rowInfo.oldIndex # NoIndex THEN rowInfo.oldIndex ELSE rowInfo.newIndex

\* C17: the unified row list is in ascending order of the sort key, oldIndex
\* when the row exists in A and newIndex otherwise.
C17_UnifiedRowsSorted ==
  RowsRendered =>
    \A i, j \in 1..Len(allRows[1]) :
      i < j => SortKey(allRows[1][i]) <= SortKey(allRows[1][j])

\* sheet row number n of a sheet, the header being row 1 (data[n - 1] in the
\* source's 0-based arrays), holds the given row
IsSheetRow(data, n, row) == n \in 2..Len(data) /\ data[n] = row

\* C18: a unified row's oldIndex is the sheet row number in A of its row of A,
\* its newIndex the sheet row number in B of its row of B, the header counted
\* as row 1, and the side the row is absent from has a null index.
C18_IndicesAreSheetRowNumbers ==
  RowsRendered =>
    \A i \in 1..Len(allRows[1]) :
      LET r == allRows[1][i]
      IN /\ r.oldRow = NoRow <=> r.oldIndex = NoIndex
         /\ r.newRow = NoRow <=> r.newIndex = NoIndex
         /\ r.oldRow # NoRow => IsSheetRow(oldData, r.oldIndex, r.oldRow[1])
         /\ r.newRow # NoRow => IsSheetRow(newData, r.newIndex, r.newRow[1])

\* a matched row whose two row numbers differ, next to a row of one sheet only,
\* in sheets whose data rows are not all alike
C18_Witness ==
  /\ RowsRendered
  /\ \E i, j \in 1..Len(allRows[1]) :
       /\ allRows[1][i].oldIndex # NoIndex /\ allRows[1][i].newIndex # NoIndex
       /\ allRows[1][i].oldIndex # allRows[1][i].newIndex
       /\ allRows[1][j].oldIndex = NoIndex /\ allRows[1][j].newIndex # NoIndex
  /\ Len(oldData) = 3 /\ oldData[2] # oldData[3]

BodyRendered == unifiedBody # NoDiff

\* a unified row with a row on both sides
MatchedRow(rowInfo) == rowInfo.oldRow # NoRow /\ rowInfo.newRow # NoRow

\* the engine recorded the difference, for the row of A of this unified row
\* and for the header content of this unified column
RecordedFor(diff, rowInfo, col) ==
  /\ \E d \in 1..Len(sheetDiff[1].differences) : sheetDiff[1].differences[d] = diff
  /\ diff.row = rowInfo.oldIndex
  /\ diff.header = col.header

\* C19: a cell of the unified table is shown as modified, old value -> new
\* value, only if its row is a matched row and the engine recorded a cell
\* difference for that row and that column's header content; a cell of an
\* added or deleted row never shows a difference recorded for another row.
C19_ModifiedCellsShowTheirOwnDifference ==
  BodyRendered =>
    \A r \in 1..Len(unifiedBody[1]) :
      \A c \in 1..Len(unifiedBody[1][r].cells) :
        LET td == unifiedBody[1][r].cells[c]
        IN td.cellDiff # NoCellDiff =>
             /\ MatchedRow(allRows[1][r])
             /\ RecordedFor(td.cellDiff[1], allRows[1][r], unifiedColumns[1][c])

-----------------------------------------------------------------------------
(* Properties of the change navigation.                                    *)

ChangeCount == Len(changedCells)

\* a change is selected
Selected(index) == index \in 0..(ChangeCount - 1)

\* C20: navigation wraps around at both ends: with a change selected, Next
\* from the last change selects the first, Previous from the first selects
\* the last, Previous after Next and Next after Previous return to the change
\* they started from, and after any Next, Previous or click the current index
\* is within 0..N-1.
C20_NavigationWrapsAround ==
  /\ [][(NavigateNext /\ currentChangeIndex = ChangeCount - 1)
          => currentChangeIndex' = 0]_vars
  /\ [][(NavigatePrev /\ currentChangeIndex = 0)
          => currentChangeIndex' = ChangeCount - 1]_vars
  /\ [][(NavigatePrev /\ lastNav.action = "next" /\ Selected(lastNav.from))
          => currentChangeIndex' = lastNav.from]_vars
  /\ [][(NavigateNext /\ lastNav.action = "prev" /\ Selected(lastNav.from))
          => currentChangeIndex' = lastNav.from]_vars
  /\ [](lastNav.action # "none" => Selected(currentChangeIndex))

\* Next has just wrapped from the last of several changes to the first
C20_Witness ==
  /\ ChangeCount >= 3
  /\ lastNav = [action |-> "next", from |-> ChangeCount - 1]
  /\ currentChangeIndex = 0

-----------------------------------------------------------------------------
(* Properties of the change counter.                                       *)

\* the counter reads current / total for some current within 0..total
CounterWithinTotal(ui, total) ==
  \E current \in 0..total : ui.counter = CounterText(current, total)

\* C21: after any renders and navigation the change counter shows
\* current / total with total the number of collected changed cells and
\* 0 <= current <= total, it shows 0 / 0 when there are no changes, and the
\* Previous and Next buttons are disabled exactly when total is 0.
C21_CounterShowsCurrentOfTotal ==
  BodyRendered =>
    /\ navigationUI # NoUI
    /\ CounterWithinTotal(navigationUI[1], ChangeCount)
    /\ ChangeCount = 0 => navigationUI[1].counter = <<"0", " ", "/", " ", "0">>
    /\ navigationUI[1].prevDisabled <=> ChangeCount = 0
    /\ navigationUI[1].nextDisabled <=> ChangeCount = 0

\* the last of several changes is selected and the counter says so
C21_Witness ==
  /\ ChangeCount >= 3 /\ currentChangeIndex = ChangeCount - 1
  /\ lastNav.action # "none"
  /\ navigationUI # NoUI
  /\ navigationUI[1].counter = CounterText(ChangeCount, ChangeCount)
  /\ ~navigationUI[1].prevDisabled

-----------------------------------------------------------------------------
(* Properties of the flat change list.                                     *)

\* the entries of the change list for the cells of unified row r
EntriesOfRow(r) == {i \in 1..Len(changedCells) : changedCells[i].row = r}

EntriesOfCell(r, c) ==
  {i \in 1..Len(changedCells) : changedCells[i] = [row |-> r, cell |-> c]}

OneSidedRow(rowInfo) == rowInfo.oldRow = NoRow \/ rowInfo.newRow = NoRow

OneSidedColumn(col) == col.type \in {"added", "deleted"}

\* the table shows a difference in this cell
ShowsDifference(r, c) == unifiedBody[1][r].cells[c].cellDiff # NoCellDiff

\* C22 as stated: the change list has exactly one entry per added row and one
\* per deleted row, one per cell of an added or deleted column and one per
\* modified cell (of the other rows), and no other entry.
C22_OneEntryPerChangedRow ==
  BodyRendered =>
    \A r \in 1..Len(allRows[1]) :
      IF OneSidedRow(allRows[1][r])
      THEN Cardinality(EntriesOfRow(r)) = 1
      ELSE \A c \in 1..Len(unifiedColumns[1]) :
             Cardinality(EntriesOfCell(r, c)) =
               IF OneSidedColumn(unifiedColumns[1][c]) \/ ShowsDifference(r, c)
               THEN 1 ELSE 0

\* the cell is one the engine's results mark: its row is only in one sheet,
\* its column is only in one sheet, or a recorded difference carries its
\* row number and header
MarkedCell(r, c) ==
  \/ OneSidedRow(allRows[1][r])
  \/ OneSidedColumn(unifiedColumns[1][c])
  \/ \E d \in 1..Len(sheetDiff[1].differences) :
       /\ sheetDiff[1].differences[d].row = IndexForCellKey(allRows[1][r])
       /\ sheetDiff[1].differences[d].header = unifiedColumns[1][c].header

\* C22 as the code has it: the change list has exactly one entry per cell of
\* an added or deleted row, per cell of an added or deleted column and per
\* cell shown as modified, no entry for any other cell, and the entries are
\* in the order of the table, row by row.
C22_OneEntryPerChangedCell ==
  BodyRendered =>
    /\ \A r \in 1..Len(allRows[1]) : \A c \in 1..Len(unifiedColumns[1]) :
         Cardinality(EntriesOfCell(r, c)) = IF MarkedCell(r, c) THEN 1 ELSE 0
    /\ \A i \in 1..Len(changedCells) :
         /\ changedCells[i].row \in 1..Len(allRows[1])
         /\ changedCells[i].cell \in 1..Len(unifiedColumns[1])
    /\ \A i, j \in 1..Len(changedCells) :
         i < j => \/ changedCells[i].row < changedCells[j].row
                  \/ /\ changedCells[i].row = changedCells[j].row
                     /\ changedCells[i].cell < changedCells[j].cell

\* a row of one sheet only with an entry for each of its several cells, next
\* to a row of both sheets
C22_Witness ==
  /\ BodyRendered
  /\ \E r, m \in 1..Len(allRows[1]) :
       /\ OneSidedRow(allRows[1][r]) /\ Cardinality(EntriesOfRow(r)) >= 2
       /\ ~OneSidedRow(allRows[1][m])

-----------------------------------------------------------------------------
(* Properties of the column names.                                         *)

\* the documented algorithm on the 1-based n: letter 'A' + (n - 1) mod 26,
\* carry floor((n - 1) / 26), letters prepended until n is 0
RECURSIVE DocumentedLabel(_)
DocumentedLabel(n) ==
  IF n = 0 THEN <<>>
  ELSE DocumentedLabel((n - 1) \div 26) \o <<Letters[((n - 1) % 26) + 1]>>

\* C24: getColumnName gives every zero-based index i the label of the
\* documented algorithm on i + 1: 0..25 give A..Z, 26 and 27 give AA and AB,
\* and two distinct indices never get the same label.
C24_ColumnNamesAreSpreadsheetLabels ==
  columnName # NoName =>
    /\ columnName = DocumentedLabel(colIndex + 1)
    /\ colIndex <= 25 => columnName = <<Letters[colIndex + 1]>>
    /\ colIndex = 26 => columnName = <<"A", "A">>
    /\ colIndex = 27 => columnName = <<"A", "B">>
    /\ \A other \in 0..MaxColumnIndex :
         other # colIndex => getColumnName(other) # columnName

\* the first three-letter label, right after ZZ
C24_Witness == colIndex = 702 /\ columnName = <<"A", "A", "A">>

-----------------------------------------------------------------------------
(* Properties of the file slots and the comparison workflow.               *)

\* C23: a selected or dropped file larger than 50MB is rejected: neither slot
\* of the file handler ever stores a file of more than 50 * 1024 * 1024 bytes.
C23_NoStoredFileOverFiftyMegabytes ==
  \A type \in SlotTypes :
    handlerFiles[type] # NoFile => handlerFiles[type][1].size <= MaxFileSize

\* C25: after any file selections, removals and resets, Start Comparing is
\* enabled if and only if both slots A and B hold a file, and the
\* application's fileA and fileB are the file handler's stored files.
C25_StartEnabledIffBothFiles ==
  /\ ~startCompareDisabled <=> BothFiles(handlerFiles)
  /\ appFiles = handlerFiles

\* one slot emptied again after a comparison was run with both files
C25_Witness ==
  /\ comparePc = "failed"
  /\ handlerFiles.A # NoFile /\ handlerFiles.B = NoFile
  /\ startCompareDisabled

\* compareFiles has ended
Ended == comparePc \in {"succeeded", "failed"}

\* C26: every run of the comparison that is started ends with the loading
\* overlay hidden, whether reading, parsing and comparing succeed or a step
\* fails; after a failure the upload view is still shown and no diff view is.
C26_RunEndsWithOverlayHidden ==
  /\ Comparing ~> (Ended /\ loadingOverlay = "none")
  /\ [](Ended => loadingOverlay = "none")
  /\ [](comparePc = "failed" => uploadSectionShown /\ ~diffSectionShown)
  /\ [](loadingOverlay = "flex" => Comparing)

\* a run that failed at the second file, after the first was parsed
C26_Witness ==
  /\ comparePc = "failed" /\ appData.dataA /\ ~appData.dataB
  /\ loadingOverlay = "none" /\ uploadSectionShown

-----------------------------------------------------------------------------
(* Properties of the cover of the two sheets.                              *)

\* the unified rows holding sheet row n of A, of B
UnifiedRowsOfOld(n) == {i \in 1..Len(allRows[1]) : allRows[1][i].oldIndex = n}
UnifiedRowsOfNew(n) == {i \in 1..Len(allRows[1]) : allRows[1][i].newIndex = n}

\* C27: the unified row list covers both inputs without duplicates: every
\* data row of A is the row of A of exactly one unified row, every data row
\* of B the row of B of exactly one unified row, and no unified row has both
\* sides null.
C27_UnifiedRowsCoverBothSheets ==
  RowsRendered =>
    /\ \A n \in 2..Len(oldData) :
         /\ Cardinality(UnifiedRowsOfOld(n)) = 1
         /\ \A i \in UnifiedRowsOfOld(n) : allRows[1][i].oldRow = <<oldData[n]>>
    /\ \A n \in 2..Len(newData) :
         /\ Cardinality(UnifiedRowsOfNew(n)) = 1
         /\ \A i \in UnifiedRowsOfNew(n) : allRows[1][i].newRow = <<newData[n]>>
    /\ \A i \in 1..Len(allRows[1]) :
         allRows[1][i].oldRow # NoRow \/ allRows[1][i].newRow # NoRow

\* the unified columns carrying column c of A's header row, of B's
UnifiedColumnsOfOld(c) ==
  {i \in 1..Len(unifiedColumns[1]) : unifiedColumns[1][i].oldCol = getColumnName(c - 1)}
UnifiedColumnsOfNew(c) ==
  {i \in 1..Len(unifiedColumns[1]) : unifiedColumns[1][i].newCol = getColumnName(c - 1)}

\* C28: the unified column list covers both header rows without duplicates:
\* every column identifier of A is the oldCol of exactly one unified column
\* and every column identifier of B the newCol of exactly one, so that no
\* column of either sheet is missing from the rendered table.
C28_UnifiedColumnsCoverBothHeaders ==
  Rendered =>
    /\ \A c \in 1..Len(oldData[1]) : Cardinality(UnifiedColumnsOfOld(c)) = 1
    /\ \A c \in 1..Len(newData[1]) : Cardinality(UnifiedColumnsOfNew(c)) = 1

-----------------------------------------------------------------------------
(* Properties of a sheet compared with itself.                             *)

\* C29: comparing a sheet with itself, the same data as A and as B, yields no
\* column changes, no row changes and no cell differences, whatever the
\* sheet holds, data rows with a blank column A cell included.
C29_SameSheetNoChanges ==
  (Compared /\ oldData = newData) =>
    /\ sheetDiff[1].columnChanges = <<>>
    /\ sheetDiff[1].rowChanges = <<>>
    /\ sheetDiff[1].differences = <<>>

-----------------------------------------------------------------------------
(* Properties of the first navigation after a render.                      *)

\* C30: right after a table is rendered, with no change selected and N >= 1
\* changes, the first Next selects change 1, the first change, and the first
\* Previous selects change N, the last change.
C30_FirstNextAndFirstPrevious ==
  /\ [][(NavigateNext /\ currentChangeIndex = NoChange)
          => currentChangeIndex' = 0]_vars
  /\ [][(NavigatePrev /\ currentChangeIndex = NoChange)
          => currentChangeIndex' = ChangeCount - 1]_vars
=============================================================================
